---- MODULE Spec2Model ----
(***************************************************************************)
(* Translator feature of kana-dojo: the Error Normalizer                   *)
(* (getErrorMessage), the Translation Gateway (translate) and the Proxy    *)
(* Endpoint (POST /api/translate).                                         *)
(*                                                                         *)
(* Three specifications share the module:                                  *)
(*   NormalizerSpec  getErrorMessage applied to one code                   *)
(*   GatewaySpec     one call of translate, split at its await of fetch    *)
(*   ProxySpec       one request to POST, split at its awaits              *)
(*   HistorySpec     the language pair and the History Store operations    *)
(***************************************************************************)
EXTENDS Integers, Sequences, FiniteSets, TLC

VARIABLES
    nPc, nCode, nResult,
    gPc, gOnline, gText, gRequests, gSettled, gThrown, gResult,
    pPc, pBody, pApiKey, pProviderCalls, pSettled, pThrown, pResponse,
    lSource, lTarget, hStore, hOp, hBefore, hLoaded

nVars == <<nPc, nCode, nResult>>
gVars == <<gPc, gOnline, gText, gRequests, gSettled, gThrown, gResult>>
pVars == <<pPc, pBody, pApiKey, pProviderCalls, pSettled, pThrown, pResponse>>
hVars == <<lSource, lTarget, hStore, hOp, hBefore, hLoaded>>
vars == <<nVars, gVars, pVars, hVars>>

(***************************************************************************)
(* JavaScript values.  A value is a record tagged by its typeof; strings   *)
(* that are codes or messages are TLA+ strings, numbers are integers.      *)
(***************************************************************************)
Undefined == [t |-> "undefined"]
Null == [t |-> "null"]
Str(s) == [t |-> "string", s |-> s]
Num(n) == [t |-> "number", n |-> n]
Fn(name) == [t |-> "function", fn |-> name]
Obj(name) == [t |-> "object", ref |-> name]

\* ToBoolean: undefined, null, "", 0 are falsy; functions and objects truthy.
Truthy(v) ==
    CASE v.t = "undefined" -> FALSE
      [] v.t = "null" -> FALSE
      [] v.t = "string" -> v.s # ""
      [] v.t = "number" -> v.n # 0
      [] OTHER -> TRUE

\* a || b
Or(a, b) == IF Truthy(a) THEN a ELSE b

\* ToPropertyKey for the values that reach a property lookup here.
NumKey(n) == CASE n = 0 -> "0" [] n = 5 -> "5" [] n = 7 -> "7" [] OTHER -> "NaN"
ToPropertyKey(v) ==
    CASE v.t = "undefined" -> "undefined"
      [] v.t = "null" -> "null"
      [] v.t = "string" -> v.s
      [] v.t = "number" -> NumKey(v.n)
      [] OTHER -> "[object Object]"

(***************************************************************************)
(* Error Normalizer                                                        *)
(***************************************************************************)
ERROR_CODES ==
    [INVALID_INPUT |-> "INVALID_INPUT", RATE_LIMIT |-> "RATE_LIMIT",
     API_ERROR |-> "API_ERROR", AUTH_ERROR |-> "AUTH_ERROR",
     NETWORK_ERROR |-> "NETWORK_ERROR", OFFLINE |-> "OFFLINE"]

TaxonomyCodes == {ERROR_CODES[k] : k \in DOMAIN ERROR_CODES}

\* The own properties of the ERROR_MESSAGES object literal.
ERROR_MESSAGES ==
    [INVALID_INPUT |-> "Please enter valid text to translate.",
     RATE_LIMIT |-> "Too many requests. Please wait a moment and try again.",
     API_ERROR |-> "Translation service is temporarily unavailable.",
     AUTH_ERROR |-> "Translation service configuration error.",
     NETWORK_ERROR |-> "Unable to connect. Please check your internet connection.",
     OFFLINE |-> "You are offline. Please check your internet connection."]

\* ERROR_MESSAGES is an object literal, so its prototype is Object.prototype
\* and a lookup of a key it does not own continues there.
ObjectPrototypeNames ==
    {"constructor", "toString", "valueOf", "hasOwnProperty", "isPrototypeOf",
     "propertyIsEnumerable", "toLocaleString", "__proto__", "__defineGetter__",
     "__defineSetter__", "__lookupGetter__", "__lookupSetter__"}

ObjectPrototypeGet(key) ==
    CASE key = "constructor" -> Fn("Object")
      [] key = "__proto__" -> Obj("Object.prototype")
      [] OTHER -> Fn(key)

\* ERROR_MESSAGES[key]: own property, else inherited property, else undefined.
ErrorMessagesGet(key) ==
    IF key \in DOMAIN ERROR_MESSAGES THEN Str(ERROR_MESSAGES[key])
    ELSE IF key \in ObjectPrototypeNames THEN ObjectPrototypeGet(key)
    ELSE Undefined

\* return ERROR_MESSAGES[code] || ERROR_MESSAGES[ERROR_CODES.API_ERROR]
getErrorMessage(code) ==
    Or(ErrorMessagesGet(ToPropertyKey(code)),
       ErrorMessagesGet(ERROR_CODES.API_ERROR))

\* Codes handed to getErrorMessage: the taxonomy, the names every object
\* inherits, and other strings (case variants, padded, empty, unrelated).
OtherCodes ==
    {"", " ", "undefined", "null", "0", "UNKNOWN", "TIMEOUT", "FOO", "ERROR",
     "invalid_input", "rate_limit", "api_error", "auth_error", "network_error",
     "offline", "Invalid_Input", "INVALID INPUT", "INVALID_INPUT ", " API_ERROR",
     "API_ERRORS", "API", "RATE", "AUTH", "NETWORK", "QUOTA_EXCEEDED",
     "NOT_FOUND", "FORBIDDEN", "BAD_REQUEST", "SERVER_ERROR", "length",
     "prototype", "name", "message", "code", "status", "toJSON", "then",
     "Constructor", "tostring", "__proto", "proto__", "hasOwn"}

CodeInputs == TaxonomyCodes \cup ObjectPrototypeNames \cup OtherCodes

NoValue == [t |-> "none"]

NInit ==
    /\ nPc = "call"
    /\ nCode \in CodeInputs
    /\ nResult = NoValue

GetErrorMessage ==
    /\ nPc = "call"
    /\ nResult' = getErrorMessage(Str(nCode))
    /\ nPc' = "returned"
    /\ UNCHANGED <<nCode, gVars, pVars, hVars>>

(***************************************************************************)
(* Text.  A JavaScript string is modelled run-length encoded: a sequence   *)
(* of runs, each a character repeated n >= 1 times, so that strings of     *)
(* 5000 characters and more are values of the model.  <<>> is "".          *)
(***************************************************************************)
MaxRuns == 2
MaxTextLength == 5000

Chars == {" ", "a"}
IsWhitespace(ch) == ch = " "
RunLens == {1, MaxTextLength - 1, MaxTextLength, MaxTextLength + 1}
Runs == [ch : Chars, n : RunLens]
Texts == UNION {[1..k -> Runs] : k \in 0..MaxRuns}

\* text.length
RECURSIVE TextLength(_)
TextLength(text) ==
    IF text = <<>> THEN 0 ELSE Head(text).n + TextLength(Tail(text))

\* text.trim(): whitespace removed from both ends
RECURSIVE TrimStart(_)
TrimStart(text) ==
    IF text = <<>> THEN <<>>
    ELSE IF IsWhitespace(Head(text).ch) THEN TrimStart(Tail(text))
    ELSE text

RECURSIVE TrimEnd(_)
TrimEnd(text) ==
    IF text = <<>> THEN <<>>
    ELSE IF IsWhitespace(text[Len(text)].ch)
         THEN TrimEnd(SubSeq(text, 1, Len(text) - 1))
    ELSE text

Trim(text) == TrimEnd(TrimStart(text))

Languages == {"en", "ja"}

(***************************************************************************)
(* Translation Gateway: translate(text, sourceLanguage, targetLanguage)    *)
(***************************************************************************)
\* A TranslationAPIError object literal; code and message are JS values.
APIError(code, message, status) ==
    [code |-> code, message |-> message, status |-> status]

Rejected(error) == [k |-> "rejected", error |-> error]
Resolved(value) == [k |-> "resolved", value |-> value]

\* A parsed JSON object: props maps the property names it owns to values.
Json(props) == [t |-> "json", props |-> props]

\* data.name: a TypeError on null and undefined, undefined on a primitive or
\* when the object has no such property.
CanRead(data) == data.t \notin {"null", "undefined"}
Prop(data, name) ==
    IF data.t = "json" /\ name \in DOMAIN data.props THEN data.props[name]
    ELSE Undefined

\* What the try block can throw: an object literal built at line 110, or a
\* native exception.  origin records where the native exception arose.
\* A native exception's message is the sequence of its words.
ThrownObject(error) == [class |-> "Object", error |-> error]
Native(class, message, origin) ==
    [class |-> class, message |-> message, origin |-> origin]

\* error.message.includes(word)
MessageIncludes(message, word) == \E i \in DOMAIN message : message[i] = word

\* The exceptions the runtime raises in the two handlers.
FetchFailed(message) == Native("TypeError", message, "fetch")
JsonSyntaxError ==
    Native("SyntaxError", <<"Unexpected", "token", "<", "in", "JSON">>, "json")
CannotRead(of, name) ==
    Native("TypeError",
           <<"Cannot", "read", "properties", "of", of, "(reading", name, ")">>,
           "property")
CannotDestructure(of) ==
    Native("TypeError",
           <<"Cannot", "destructure", "property", "text", "of", "body", "as",
             "it", "is", of>>,
           "property")

\* The property names the `in` operator finds on a thrown value.
PropsOf(e) ==
    IF e.class = "Object" THEN {"code", "message", "status"}
    ELSE {"message", "stack", "name", "constructor", "toString"}

\* lines 121-127
IsTranslationAPIError(e) == {"code", "message", "status"} \subseteq PropsOf(e)
\* line 132
InstanceOfTypeError(e) == e.class = "TypeError"

\* translate checks navigator.onLine
isOnline(online) == online

\* Precondition with the length checked before the emptiness.
PreconditionLengthFirst(online, text) ==
    IF ~isOnline(online)
        THEN APIError(Str(ERROR_CODES.OFFLINE),
                      getErrorMessage(Str(ERROR_CODES.OFFLINE)), 0)
    ELSE IF TextLength(text) > MaxTextLength
        THEN APIError(Str(ERROR_CODES.INVALID_INPUT),
                      Str("Text exceeds maximum length of 5000 characters."), 400)
    ELSE IF text = <<>> \/ TextLength(Trim(text)) = 0
        THEN APIError(Str(ERROR_CODES.INVALID_INPUT),
                      Str("Please enter text to translate."), 400)
    ELSE NoValue

\* lines 65-91: the precondition that fails first, or "none"
Precondition(online, text) ==
    IF ~isOnline(online)
        THEN APIError(Str(ERROR_CODES.OFFLINE),
                      getErrorMessage(Str(ERROR_CODES.OFFLINE)), 0)
    ELSE IF text = <<>> \/ TextLength(Trim(text)) = 0
        THEN APIError(Str(ERROR_CODES.INVALID_INPUT),
                      Str("Please enter text to translate."), 400)
    ELSE IF TextLength(text) > MaxTextLength
        THEN APIError(Str(ERROR_CODES.INVALID_INPUT),
                      Str("Text exceeds maximum length of 5000 characters."), 400)
    ELSE NoValue

\* response.ok
Ok(status) == status >= 200 /\ status <= 299

\* lines 93-118: what the try block does once fetch has settled
TryBlock(settled) ==
    IF settled.k = "failed"
        THEN [k |-> "throw", e |-> FetchFailed(<<"Failed", "to", "fetch">>)]
    ELSE IF settled.body.t = "unparseable"
        THEN [k |-> "throw", e |-> JsonSyntaxError]
    ELSE LET data == settled.body IN
        IF ~Ok(settled.status)
            THEN IF ~CanRead(data)
                THEN [k |-> "throw", e |-> CannotRead(data.t, "code")]
                ELSE [k |-> "throw", e |-> ThrownObject(APIError(
                        Or(Prop(data, "code"), Str(ERROR_CODES.API_ERROR)),
                        Or(Prop(data, "message"), getErrorMessage(Prop(data, "code"))),
                        settled.status))]
        ELSE [k |-> "return", value |-> data]

\* lines 119-148
CatchBlock(e) ==
    IF IsTranslationAPIError(e) THEN e.error
    ELSE IF InstanceOfTypeError(e)
        THEN APIError(Str(ERROR_CODES.NETWORK_ERROR),
                      getErrorMessage(Str(ERROR_CODES.NETWORK_ERROR)), 0)
    ELSE APIError(Str(ERROR_CODES.API_ERROR),
                  getErrorMessage(Str(ERROR_CODES.API_ERROR)), 500)

\* What the Proxy Endpoint (or whatever answers at /api/translate) can send.
BodyCodes ==
    {Undefined, Str(""), Str("RATE_LIMIT"), Str("NETWORK_ERROR"), Str("FOO"),
     Str("constructor"), Num(7)}
BodyMessages == {Undefined, Str(""), Str("Custom message."), Num(5)}
ErrorBodies ==
    {Json([code |-> c, message |-> m]) : c \in BodyCodes, m \in BodyMessages}
SuccessBodies ==
    {Json([translatedText |-> Str("konnichiwa")]),
     Json([translatedText |-> Str("hello"), detectedSourceLanguage |-> Str("ja")])}
Bodies ==
    ErrorBodies \cup SuccessBodies
        \cup {Null, Num(5), [t |-> "unparseable"]}
Statuses == {200, 400, 429, 500, 502, 503}
FetchOutcomes ==
    {[k |-> "failed"]} \cup [k : {"response"}, status : Statuses, body : Bodies]

GInit ==
    /\ gPc = "idle"
    /\ gOnline = TRUE
    /\ gText = <<>>
    /\ gRequests = <<>>
    /\ gSettled = NoValue
    /\ gThrown = NoValue
    /\ gResult = NoValue

\* The call up to its first await: the preconditions, then fetch is issued.
Translate(online, text, sourceLanguage, targetLanguage) ==
    /\ gPc = "idle"
    /\ gOnline' = online
    /\ gText' = text
    /\ LET failed == Precondition(online, text) IN
        IF failed # NoValue
            THEN /\ gResult' = Rejected(failed)
                 /\ gPc' = "done"
                 /\ UNCHANGED gRequests
            ELSE /\ gRequests' = Append(gRequests,
                        [text |-> text, sourceLanguage |-> sourceLanguage,
                         targetLanguage |-> targetLanguage])
                 /\ gPc' = "fetching"
                 /\ UNCHANGED gResult
    /\ UNCHANGED <<gSettled, gThrown, nVars, pVars, hVars>>

\* FetchSettles with one more attempt after a transport failure.
FetchSettlesRetry(settled) ==
    /\ gPc = "fetching"
    /\ IF settled.k = "failed" /\ Len(gRequests) < 2
        THEN /\ gRequests' = Append(gRequests, gRequests[1])
             /\ UNCHANGED <<gPc, gSettled, gThrown, gResult>>
        ELSE /\ gSettled' = settled
             /\ LET r == TryBlock(settled) IN
                 IF r.k = "return"
                     THEN /\ gResult' = Resolved(r.value)
                          /\ gThrown' = NoValue
                     ELSE /\ gThrown' = r.e
                          /\ gResult' = Rejected(CatchBlock(r.e))
             /\ gPc' = "done"
             /\ UNCHANGED gRequests
    /\ UNCHANGED <<gOnline, gText, nVars, pVars, hVars>>

\* fetch settles and the rest of the call runs to its end.
FetchSettles(settled) ==
    /\ gPc = "fetching"
    /\ gSettled' = settled
    /\ LET r == TryBlock(settled) IN
        IF r.k = "return"
            THEN /\ gResult' = Resolved(r.value)
                 /\ gThrown' = NoValue
            ELSE /\ gThrown' = r.e
                 /\ gResult' = Rejected(CatchBlock(r.e))
    /\ gPc' = "done"
    /\ UNCHANGED <<gOnline, gText, gRequests, nVars, pVars, hVars>>

(***************************************************************************)
(* Proxy Endpoint: POST /api/translate                                     *)
(***************************************************************************)
ProxyMaxTextLength == 5000

\* A string whose content is a text of the model.
Txt(text) == [t |-> "text", text |-> text]
Arr(items) == [t |-> "array", items |-> items]

TypeOf(v) ==
    CASE v.t = "text" -> "string"
      [] v.t \in {"null", "json", "array"} -> "object"
      [] OTHER -> v.t

\* !v for the values a request body can carry
Falsy(v) == IF v.t = "text" THEN v.text = <<>> ELSE ~Truthy(v)

\* arr[0]
First(v) ==
    IF v.t = "array" /\ Len(v.items) >= 1 THEN v.items[1] ELSE Undefined

validLanguages == {Str("en"), Str("ja")}

\* NextResponse.json(body, { status })
ErrorResponse(code, message, bodyStatus, httpStatus) ==
    [status |-> httpStatus,
     body |-> [code |-> code, message |-> message, status |-> bodyStatus]]
SuccessResponse(translatedText, detectedSourceLanguage) ==
    [status |-> 200,
     body |-> [translatedText |-> translatedText,
               detectedSourceLanguage |-> detectedSourceLanguage]]

\* PostCatch taking every TypeError for a transport failure.
PostCatchAnyTypeError(error) ==
    IF error.class = "TypeError"
        THEN ErrorResponse(ERROR_CODES.NETWORK_ERROR,
                "Unable to connect. Please check your internet connection.",
                503, 503)
    ELSE ErrorResponse(ERROR_CODES.API_ERROR,
                "Translation service is temporarily unavailable.", 500, 500)

\* lines 163-186
PostCatch(error) ==
    IF error.class = "TypeError" /\ MessageIncludes(error.message, "fetch")
        THEN ErrorResponse(ERROR_CODES.NETWORK_ERROR,
                "Unable to connect. Please check your internet connection.",
                503, 503)
    ELSE ErrorResponse(ERROR_CODES.API_ERROR,
                "Translation service is temporarily unavailable.", 500, 500)

\* lines 35-100: the exception request.json() or the destructuring raises,
\* or the response of the validation rule that fails first, or "none".
BodyException(body) ==
    IF body.t = "unparseable" THEN JsonSyntaxError
    ELSE IF ~CanRead(body) THEN CannotDestructure(body.t)
    ELSE NoValue

Validate(body, apiKey) ==
    LET text == Prop(body, "text")
        sourceLanguage == Prop(body, "sourceLanguage")
        targetLanguage == Prop(body, "targetLanguage")
    IN  IF Falsy(text) \/ TypeOf(text) # "string"
            THEN ErrorResponse(ERROR_CODES.INVALID_INPUT,
                    "Please enter valid text to translate.", 400, 400)
        ELSE IF TextLength(Trim(text.text)) = 0
            THEN ErrorResponse(ERROR_CODES.INVALID_INPUT,
                    "Please enter text to translate.", 400, 400)
        ELSE IF TextLength(text.text) > ProxyMaxTextLength
            THEN ErrorResponse(ERROR_CODES.INVALID_INPUT,
                    "Text exceeds maximum length of 5000 characters.", 400, 400)
        ELSE IF sourceLanguage \notin validLanguages
                \/ targetLanguage \notin validLanguages
            THEN ErrorResponse(ERROR_CODES.INVALID_INPUT,
                    "Invalid language selection.", 400, 400)
        ELSE IF ~Truthy(apiKey)
            THEN ErrorResponse(ERROR_CODES.AUTH_ERROR,
                    "Translation service configuration error.", 500, 500)
        ELSE NoValue

\* lines 156-157: the exception reading the provider's success body raises
ProviderBodyException(body) ==
    IF body.t = "unparseable" THEN JsonSyntaxError
    ELSE IF ~CanRead(body) THEN CannotRead(body.t, "data")
    ELSE IF ~CanRead(Prop(body, "data"))
        THEN CannotRead(Prop(body, "data").t, "translations")
    ELSE IF ~CanRead(Prop(Prop(body, "data"), "translations"))
        THEN CannotRead(Prop(Prop(body, "data"), "translations").t, "0")
    ELSE IF ~CanRead(First(Prop(Prop(body, "data"), "translations")))
        THEN CannotRead(First(Prop(Prop(body, "data"), "translations")).t,
                        "translatedText")
    ELSE NoValue

\* MapProviderResponse with 403 left to the generic branch.
MapProviderResponseNo403(settled) ==
    IF settled.status = 429
        THEN ErrorResponse(ERROR_CODES.RATE_LIMIT,
                "Too many requests. Please wait a moment and try again.", 429, 429)
    ELSE IF settled.status = 401
        THEN ErrorResponse(ERROR_CODES.AUTH_ERROR,
                "Translation service configuration error.",
                settled.status, settled.status)
    ELSE IF ~Ok(settled.status)
        THEN ErrorResponse(ERROR_CODES.API_ERROR,
                "Translation service is temporarily unavailable.",
                settled.status, settled.status)
    ELSE IF ProviderBodyException(settled.body) # NoValue
        THEN PostCatch(ProviderBodyException(settled.body))
    ELSE LET translation == First(Prop(Prop(settled.body, "data"), "translations"))
         IN  SuccessResponse(Prop(translation, "translatedText"),
                             Prop(translation, "detectedSourceLanguage"))

\* MapProviderResponse with the provider's error text put into the message.
MapProviderResponseLeaky(settled) ==
    IF settled.status = 429
        THEN ErrorResponse(ERROR_CODES.RATE_LIMIT,
                "Too many requests. Please wait a moment and try again.", 429, 429)
    ELSE IF settled.status = 401 \/ settled.status = 403
        THEN ErrorResponse(ERROR_CODES.AUTH_ERROR,
                "Translation service configuration error.",
                settled.status, settled.status)
    ELSE IF ~Ok(settled.status)
        THEN ErrorResponse(ERROR_CODES.API_ERROR,
                IF Prop(settled.body, "error").t = "string"
                    THEN Prop(settled.body, "error").s
                    ELSE "Translation service is temporarily unavailable.",
                settled.status, settled.status)
    ELSE IF ProviderBodyException(settled.body) # NoValue
        THEN PostCatch(ProviderBodyException(settled.body))
    ELSE LET translation == First(Prop(Prop(settled.body, "data"), "translations"))
         IN  SuccessResponse(Prop(translation, "translatedText"),
                             Prop(translation, "detectedSourceLanguage"))

\* lines 118-162: the response made from the provider's response
MapProviderResponse(settled) ==
    IF settled.status = 429
        THEN ErrorResponse(ERROR_CODES.RATE_LIMIT,
                "Too many requests. Please wait a moment and try again.", 429, 429)
    ELSE IF settled.status = 401 \/ settled.status = 403
        THEN ErrorResponse(ERROR_CODES.AUTH_ERROR,
                "Translation service configuration error.",
                settled.status, settled.status)
    ELSE IF ~Ok(settled.status)
        THEN ErrorResponse(ERROR_CODES.API_ERROR,
                "Translation service is temporarily unavailable.",
                settled.status, settled.status)
    ELSE IF ProviderBodyException(settled.body) # NoValue
        THEN PostCatch(ProviderBodyException(settled.body))
    ELSE LET translation == First(Prop(Prop(settled.body, "data"), "translations"))
         IN  SuccessResponse(Prop(translation, "translatedText"),
                             Prop(translation, "detectedSourceLanguage"))

\* What a caller can post, and the credential the process is configured with.
RequestTexts == {Undefined, Null, Num(0), Num(5)} \cup {Txt(text) : text \in Texts}
RequestLanguages == {Undefined, Str("en"), Str("ja"), Str("fr")}
RequestBodies ==
    {[t |-> "unparseable"], Null, Num(5)}
        \cup {Json([text |-> x, sourceLanguage |-> s, targetLanguage |-> g]) :
                x \in RequestTexts, s \in RequestLanguages, g \in RequestLanguages}
ApiKeys == {Undefined, Str(""), Str("secret-key"), Str("other-key")}

\* What the external provider can answer.
Translations ==
    {Json([translatedText |-> Str("konnichiwa")]),
     Json([translatedText |-> Str("hello"), detectedSourceLanguage |-> Str("ja")]),
     Json([other |-> Num(5)])}
ProviderBodies ==
    {[t |-> "unparseable"], Null, Json([error |-> Str("quota")]),
     Json([data |-> Null]), Json([data |-> Json([other |-> Num(5)])]),
     Json([data |-> Json([translations |-> Arr(<<>>)])])}
        \cup {Json([data |-> Json([translations |-> Arr(<<x>>)])]) : x \in Translations}
        \cup {Json([data |-> Json([translations |-> Arr(<<x, y>>)])]) :
                x \in Translations, y \in Translations}
ProviderStatuses == {200, 201, 400, 401, 403, 404, 429, 500, 503}
ProviderOutcomes ==
    {[k |-> "failed"]}
        \cup [k : {"response"}, status : ProviderStatuses, body : ProviderBodies]

PInit ==
    /\ pPc = "RECEIVED"
    /\ pBody \in RequestBodies
    /\ pApiKey \in ApiKeys
    /\ pProviderCalls = <<>>
    /\ pSettled = NoValue
    /\ pThrown = NoValue
    /\ pResponse = NoValue

\* POST is entered and awaits request.json().
PostReceive ==
    /\ pPc = "RECEIVED"
    /\ pPc' = "VALIDATING"
    /\ UNCHANGED <<pBody, pApiKey, pProviderCalls, pSettled, pThrown, pResponse>>
    /\ UNCHANGED <<nVars, gVars, hVars>>

\* The body is read and the rules run; a request that passes them all is
\* forwarded to the provider, any other gets its response here.
PostValidate ==
    /\ pPc = "VALIDATING"
    /\ IF BodyException(pBody) # NoValue
        THEN /\ pThrown' = BodyException(pBody)
             /\ pResponse' = PostCatch(BodyException(pBody))
             /\ pPc' = "REJECTED"
             /\ UNCHANGED pProviderCalls
        ELSE IF Validate(pBody, pApiKey) # NoValue
        THEN /\ pResponse' = Validate(pBody, pApiKey)
             /\ pPc' = "REJECTED"
             /\ UNCHANGED <<pThrown, pProviderCalls>>
        ELSE /\ pProviderCalls' = Append(pProviderCalls,
                    [key |-> pApiKey, q |-> Prop(pBody, "text"),
                     source |-> Prop(pBody, "sourceLanguage"),
                     target |-> Prop(pBody, "targetLanguage"), format |-> "text"])
             /\ pPc' = "CALLING_PROVIDER"
             /\ UNCHANGED <<pThrown, pResponse>>
    /\ UNCHANGED <<pBody, pApiKey, pSettled, nVars, gVars, hVars>>

\* ProviderSettles with one more attempt after a transport failure.
ProviderSettlesRetry(settled) ==
    /\ pPc = "CALLING_PROVIDER"
    /\ IF settled.k = "failed" /\ Len(pProviderCalls) < 2
        THEN /\ pProviderCalls' = Append(pProviderCalls, pProviderCalls[1])
             /\ UNCHANGED <<pPc, pSettled, pThrown, pResponse>>
        ELSE /\ pSettled' = settled
             /\ IF settled.k = "failed"
                 THEN /\ pThrown' = FetchFailed(<<"fetch", "failed">>)
                      /\ pResponse' = PostCatch(FetchFailed(<<"fetch", "failed">>))
                 ELSE /\ pThrown' = IF Ok(settled.status)
                                       THEN ProviderBodyException(settled.body)
                                       ELSE NoValue
                      /\ pResponse' = MapProviderResponse(settled)
             /\ pPc' = IF Ok(pResponse'.status) THEN "MAPPED_SUCCESS"
                       ELSE "MAPPED_ERROR"
             /\ UNCHANGED pProviderCalls
    /\ UNCHANGED <<pBody, pApiKey, nVars, gVars, hVars>>

\* The provider call settles and the rest of POST runs to its end.
ProviderSettles(settled) ==
    /\ pPc = "CALLING_PROVIDER"
    /\ pSettled' = settled
    /\ IF settled.k = "failed"
        THEN /\ pThrown' = FetchFailed(<<"fetch", "failed">>)
             /\ pResponse' = PostCatch(FetchFailed(<<"fetch", "failed">>))
        ELSE /\ pThrown' = IF Ok(settled.status)
                              THEN ProviderBodyException(settled.body)
                              ELSE NoValue
             /\ pResponse' = MapProviderResponse(settled)
    /\ pPc' = IF Ok(pResponse'.status) THEN "MAPPED_SUCCESS" ELSE "MAPPED_ERROR"
    /\ UNCHANGED <<pBody, pApiKey, pProviderCalls, nVars, gVars, hVars>>

(***************************************************************************)
(* Language Pair Model                                                     *)
(***************************************************************************)
\* getOppositeLanguage answering 'ja' whatever it is given.
getOppositeLanguageAlwaysJa(language) == "ja"

\* en -> ja, ja -> en
getOppositeLanguage(language) == IF language = "en" THEN "ja" ELSE "en"

\* Selecting the source language sets the target to its opposite.
SelectSourceLanguage(language) ==
    /\ lSource' = language
    /\ lTarget' = getOppositeLanguage(language)
    /\ UNCHANGED <<hStore, hOp, hBefore, hLoaded, nVars, gVars, pVars>>

(***************************************************************************)
(* History Store.  The store is one key of a local key-value primitive:    *)
(* missing, or holding the encoded sequence of entries.                    *)
(***************************************************************************)
MaxIds == 2

IdNames == <<"id-1", "id-2", "id-3", "id-4">>
EntryIds == {IdNames[i] : i \in 1..MaxIds}
SourceTexts == {"hello"}
TranslatedTexts == {"konnichiwa"}
\* The romanization and creation timestamp of the entries saved.
EntryDetails ==
    {[romanization |-> Undefined, timestamp |-> 0],
     [romanization |-> Str("kon'nichiwa"), timestamp |-> 1730000000]}

\* A TranslationEntry as the caller holds it; romanization is optional.
TranslationEntry(id, sourceText, translatedText, sourceLanguage, targetLanguage, romanization, timestamp) ==
    [id |-> id, sourceText |-> sourceText, translatedText |-> translatedText,
     sourceLanguage |-> sourceLanguage, targetLanguage |-> targetLanguage,
     romanization |-> romanization, timestamp |-> timestamp]

\* The encoding of an entry: an absent romanization is not written.
Encode(entry) ==
    IF entry.romanization = Undefined
        THEN [id |-> entry.id, sourceText |-> entry.sourceText,
              translatedText |-> entry.translatedText,
              sourceLanguage |-> entry.sourceLanguage,
              targetLanguage |-> entry.targetLanguage,
              timestamp |-> entry.timestamp]
        ELSE [id |-> entry.id, sourceText |-> entry.sourceText,
              translatedText |-> entry.translatedText,
              sourceLanguage |-> entry.sourceLanguage,
              targetLanguage |-> entry.targetLanguage,
              romanization |-> entry.romanization.s,
              timestamp |-> entry.timestamp]

Decode(stored) ==
    TranslationEntry(stored.id, stored.sourceText, stored.translatedText,
        stored.sourceLanguage, stored.targetLanguage,
        IF "romanization" \in DOMAIN stored
            THEN Str(stored.romanization) ELSE Undefined,
        stored.timestamp)

MissingStore == [present |-> FALSE, items |-> <<>>]
StoreOf(history) ==
    [present |-> TRUE, items |-> [i \in DOMAIN history |-> Encode(history[i])]]

\* loadHistory(): the entries in stored order; empty for a missing store
loadHistory(store) ==
    IF ~store.present THEN <<>>
    ELSE [i \in DOMAIN store.items |-> Decode(store.items[i])]

\* saveEntry appending even when the id is already stored.
saveEntryAppendOnly(store, entry) ==
    StoreOf(Append(loadHistory(store), entry))

\* saveEntry(entry): replaces the entry of that id in place, else appends
saveEntry(store, entry) ==
    LET history == loadHistory(store) IN
    IF \E i \in DOMAIN history : history[i].id = entry.id
        THEN StoreOf([i \in DOMAIN history |->
                        IF history[i].id = entry.id THEN entry ELSE history[i]])
        ELSE StoreOf(Append(history, entry))

KeepsId(id, entry) == entry.id # id

\* deleteEntry removing the entry found and every entry stored after it.
deleteEntryTruncating(store, id) ==
    LET history == loadHistory(store)
        found == {i \in DOMAIN history : history[i].id = id}
    IN  IF found = {} THEN StoreOf(history)
        ELSE StoreOf(SubSeq(history, 1, (CHOOSE i \in found : TRUE) - 1))

\* deleteEntry(id): removes the entry of that id, the others keep their order
deleteEntry(store, id) ==
    LET history == loadHistory(store)
    IN  StoreOf(SelectSeq(history, LAMBDA entry : KeepsId(id, entry)))

\* clearAll leaving the entry stored first.
clearAllButFirst(store) ==
    IF loadHistory(store) = <<>> THEN MissingStore
    ELSE StoreOf(<<Head(loadHistory(store))>>)

\* clearAll(): removes the key
clearAll(store) == MissingStore

NoOp == [op |-> "none"]
NotLoaded == [valid |-> FALSE, entries |-> <<>>]

HInit ==
    /\ lSource = "en"
    /\ lTarget = "ja"
    /\ hStore = MissingStore
    /\ hOp = NoOp
    /\ hBefore = <<>>
    /\ hLoaded = NotLoaded

\* The caller saves the entry of a translation made with the current pair.
SaveEntry(id, sourceText, translatedText, romanization, timestamp) ==
    LET entry == TranslationEntry(id, sourceText, translatedText, lSource,
                                  lTarget, romanization, timestamp)
    IN  /\ hBefore' = loadHistory(hStore)
        /\ hStore' = saveEntry(hStore, entry)
        /\ hOp' = [op |-> "saveEntry", entry |-> entry]
        /\ hLoaded' = NotLoaded
        /\ UNCHANGED <<lSource, lTarget, nVars, gVars, pVars>>

DeleteEntry(id) ==
    /\ hBefore' = loadHistory(hStore)
    /\ hStore' = deleteEntry(hStore, id)
    /\ hOp' = [op |-> "deleteEntry", id |-> id]
    /\ hLoaded' = NotLoaded
    /\ UNCHANGED <<lSource, lTarget, nVars, gVars, pVars>>

ClearAll ==
    /\ hBefore' = loadHistory(hStore)
    /\ hStore' = clearAll(hStore)
    /\ hOp' = [op |-> "clearAll"]
    /\ hLoaded' = NotLoaded
    /\ UNCHANGED <<lSource, lTarget, nVars, gVars, pVars>>

LoadHistory ==
    /\ hLoaded' = [valid |-> TRUE, entries |-> loadHistory(hStore)]
    /\ UNCHANGED <<lSource, lTarget, hStore, hOp, hBefore, nVars, gVars, pVars>>

(***************************************************************************)
(* Specifications                                                          *)
(***************************************************************************)
\* POST as a function of what it reads: the request body, the credential
\* and, when the provider is called, how that call settles.
POST(body, apiKey, settled) ==
    IF BodyException(body) # NoValue THEN PostCatch(BodyException(body))
    ELSE IF Validate(body, apiKey) # NoValue THEN Validate(body, apiKey)
    ELSE IF settled.k = "failed" THEN PostCatch(FetchFailed(<<"fetch", "failed">>))
    ELSE MapProviderResponse(settled)

NIdle == nPc = "idle" /\ nCode = "" /\ nResult = NoValue
GIdle ==
    /\ gPc = "off"
    /\ gOnline = TRUE
    /\ gText = <<>>
    /\ gRequests = <<>>
    /\ gSettled = NoValue
    /\ gThrown = NoValue
    /\ gResult = NoValue
PIdle ==
    /\ pPc = "off"
    /\ pBody = NoValue
    /\ pApiKey = Undefined
    /\ pProviderCalls = <<>>
    /\ pSettled = NoValue
    /\ pThrown = NoValue
    /\ pResponse = NoValue

NormalizerInit == NInit /\ GIdle /\ PIdle /\ HInit
NormalizerNext == GetErrorMessage
NormalizerSpec == NormalizerInit /\ [][NormalizerNext]_vars

GatewayInit == NIdle /\ GInit /\ PIdle /\ HInit
GatewayNext ==
    \/ \E online \in BOOLEAN, text \in Texts, s \in Languages, g \in Languages :
        Translate(online, text, s, g)
    \/ \E settled \in FetchOutcomes : FetchSettles(settled)
GatewaySpec == GatewayInit /\ [][GatewayNext]_vars

ProxyInit == NIdle /\ GIdle /\ PInit /\ HInit
ProxyNext ==
    \/ PostReceive
    \/ PostValidate
    \/ \E settled \in ProviderOutcomes : ProviderSettles(settled)
ProxySpec == ProxyInit /\ [][ProxyNext]_vars

HistoryInit == NIdle /\ GIdle /\ PIdle /\ HInit
HistoryNext ==
    \/ \E language \in Languages : SelectSourceLanguage(language)
    \/ \E id \in EntryIds, sourceText \in SourceTexts,
          translatedText \in TranslatedTexts, detail \in EntryDetails :
        SaveEntry(id, sourceText, translatedText, detail.romanization,
                  detail.timestamp)
    \/ \E id \in EntryIds : DeleteEntry(id)
    \/ ClearAll
    \/ LoadHistory
HistorySpec == HistoryInit /\ [][HistoryNext]_vars

(***************************************************************************)
(* Claims                                                                  *)
(***************************************************************************)
FallbackMessage == Str("Translation service is temporarily unavailable.")

\* C1: getErrorMessage(code) returns exactly the API_ERROR fallback message,
\* a non-empty string, for every string that is not one of the six taxonomy
\* codes, the names every object inherits ('constructor', 'toString',
\* 'valueOf', 'hasOwnProperty', '__proto__') included.
C1_FallbackForEveryUnknownCode ==
    (nPc = "returned" /\ nCode \notin TaxonomyCodes) =>
        /\ nResult = FallbackMessage
        /\ nResult.t = "string"
        /\ nResult.s # ""

\* The text is empty after trimming: it holds nothing but whitespace.
IsBlank(text) == \A i \in DOMAIN text : text[i].ch = " "
GatewayError == gResult.error
GatewayFailedLocally == gPc = "done" /\ gSettled = NoValue

\* C2: translate checks connectivity, then emptiness, then length, and fails
\* with the first precondition violated: offline gives OFFLINE with status
\* 0; otherwise a text empty after trimming gives INVALID_INPUT, 400,
\* 'Please enter text to translate.'; otherwise a text longer than 5000
\* gives INVALID_INPUT, 400, 'Text exceeds maximum length of 5000
\* characters.'; a text of exactly 5000 passes.  No request has been issued
\* in any of these failures.
C2_PreconditionOrder ==
    gPc \in {"fetching", "done"} =>
        IF ~gOnline
            THEN /\ GatewayFailedLocally /\ gResult.k = "rejected"
                 /\ GatewayError.code = Str("OFFLINE")
                 /\ GatewayError.status = 0
                 /\ gRequests = <<>>
        ELSE IF IsBlank(gText)
            THEN /\ GatewayFailedLocally /\ gResult.k = "rejected"
                 /\ GatewayError = APIError(Str("INVALID_INPUT"),
                        Str("Please enter text to translate."), 400)
                 /\ gRequests = <<>>
        ELSE IF TextLength(gText) > 5000
            THEN /\ GatewayFailedLocally /\ gResult.k = "rejected"
                 /\ GatewayError = APIError(Str("INVALID_INPUT"),
                        Str("Text exceeds maximum length of 5000 characters."), 400)
                 /\ gRequests = <<>>
        ELSE ~GatewayFailedLocally /\ Len(gRequests) = 1

\* A whitespace-only text longer than 5000 was rejected, online, as empty.
C2_Witness ==
    /\ gPc = "done" /\ gOnline
    /\ IsBlank(gText) /\ TextLength(gText) > 5000
    /\ gResult.k = "rejected"
    /\ GatewayError.message = Str("Please enter text to translate.")

GatewayGotNonSuccess ==
    gPc = "done" /\ gSettled # NoValue /\ gSettled.k = "response"
        /\ ~Ok(gSettled.status)
Present(data, name) == Prop(data, name) # Undefined

\* C3: when the Proxy Endpoint answers with a non-success HTTP status,
\* translate fails with an error whose status is that HTTP status, whose
\* code is the body's code when present, and whose message is the body's
\* message when present and otherwise getErrorMessage of that code; for
\* every non-success response, also one whose body has no code, no message
\* or is not a parseable JSON object.
C3_NonSuccessResponseMapped ==
    GatewayGotNonSuccess =>
        /\ gResult.k = "rejected"
        /\ GatewayError.status = gSettled.status
        /\ Present(gSettled.body, "code") =>
                GatewayError.code = Prop(gSettled.body, "code")
        /\ Present(gSettled.body, "message") =>
                GatewayError.message = Prop(gSettled.body, "message")
        /\ ~Present(gSettled.body, "message") =>
                GatewayError.message = getErrorMessage(Prop(gSettled.body, "code"))

GatewayCaughtNative == gThrown # NoValue /\ gThrown.class # "Object"

\* C4: a transport-level failure (the request did not reach the endpoint)
\* fails with NETWORK_ERROR and status 0; an unexpected failure that is no
\* transport failure fails with API_ERROR and status 500; a transport
\* failure is never reported as API_ERROR, and a failure that is not one is
\* never reported by the Gateway as NETWORK_ERROR.
C4_TransportAndUnexpectedFailures ==
    (gPc = "done" /\ gSettled # NoValue) =>
        /\ gSettled.k = "failed" =>
            /\ gResult.k = "rejected"
            /\ GatewayError.code = Str("NETWORK_ERROR")
            /\ GatewayError.status = 0
        /\ (gSettled.k = "response" /\ GatewayCaughtNative) =>
            /\ gResult.k = "rejected"
            /\ GatewayError.code = Str("API_ERROR")
            /\ GatewayError.status = 500
            /\ GatewayError.code # Str("NETWORK_ERROR")

\* C5: every failure of translate, on every path, is a structured error
\* with code, message and status, where code is one of the six taxonomy
\* codes and message is a non-empty string.
C5_FailuresAreStructured ==
    (gPc = "done" /\ gResult.k = "rejected") =>
        /\ DOMAIN GatewayError = {"code", "message", "status"}
        /\ GatewayError.code.t = "string"
        /\ GatewayError.code.s \in TaxonomyCodes
        /\ GatewayError.message.t = "string"
        /\ GatewayError.message.s # ""
        /\ GatewayError.status \in Nat

\* C6: one call of translate issues at most one request to the Proxy
\* Endpoint: exactly one when all preconditions pass, none otherwise, and
\* none after a failure of that request (no retries).
C6_AtMostOneRequest ==
    /\ Len(gRequests) <= 1
    /\ gPc \in {"fetching", "done"} =>
        Len(gRequests) =
            IF gOnline /\ ~IsBlank(gText) /\ TextLength(gText) <= 5000
                THEN 1 ELSE 0
    /\ Len(gRequests) = 1 =>
        /\ gRequests[1].text = gText
        /\ gRequests[1].sourceLanguage \in {"en", "ja"}
        /\ gRequests[1].targetLanguage \in {"en", "ja"}

\* The one request failed at the transport and the call ended without another.
C6_Witness ==
    /\ gPc = "done" /\ gSettled # NoValue /\ gSettled.k = "failed"
    /\ gResult.k = "rejected"
    /\ Len(gRequests) = 1

ProxyTerminal == {"REJECTED", "MAPPED_SUCCESS", "MAPPED_ERROR"}
ProxyBodyRead == pPc \notin {"RECEIVED", "VALIDATING"} /\ pBody.t = "json"
ProxyText == Prop(pBody, "text")
ProxyLanguagesValid ==
    /\ Prop(pBody, "sourceLanguage") \in {Str("en"), Str("ja")}
    /\ Prop(pBody, "targetLanguage") \in {Str("en"), Str("ja")}
ProxyRejectedWith(code, status, message) ==
    /\ pPc = "REJECTED"
    /\ pProviderCalls = <<>>
    /\ pResponse = [status |-> status,
                    body |-> [code |-> code, message |-> message, status |-> status]]

\* C7: the Proxy Endpoint rejects with the first rule violated, in the
\* order: (1) text missing or not a string: INVALID_INPUT, 400, 'Please
\* enter valid text to translate.'; (2) text a string that is empty after
\* trim, "" included: INVALID_INPUT, 400, 'Please enter text to
\* translate.'; (3) text longer than 5000: INVALID_INPUT, 400, 'Text exceeds
\* maximum length of 5000 characters.'; (4) a language outside {en, ja}:
\* INVALID_INPUT, 400, 'Invalid language selection.'; (5) credential
\* missing: AUTH_ERROR, 500, 'Translation service configuration error.'
C7_ValidationOrder ==
    ProxyBodyRead =>
        IF ProxyText.t # "text"
            THEN ProxyRejectedWith("INVALID_INPUT", 400,
                    "Please enter valid text to translate.")
        ELSE IF IsBlank(ProxyText.text)
            THEN ProxyRejectedWith("INVALID_INPUT", 400,
                    "Please enter text to translate.")
        ELSE IF TextLength(ProxyText.text) > 5000
            THEN ProxyRejectedWith("INVALID_INPUT", 400,
                    "Text exceeds maximum length of 5000 characters.")
        ELSE IF ~ProxyLanguagesValid
            THEN ProxyRejectedWith("INVALID_INPUT", 400,
                    "Invalid language selection.")
        ELSE IF pApiKey \in {Undefined, Str("")}
            THEN ProxyRejectedWith("AUTH_ERROR", 500,
                    "Translation service configuration error.")
        ELSE pPc # "REJECTED"

\* The provider's success body holds a first translation.
HasFirstTranslation(body) ==
    /\ body.t = "json" /\ "data" \in DOMAIN body.props
    /\ body.props.data.t = "json"
    /\ "translations" \in DOMAIN body.props.data.props
    /\ body.props.data.props.translations.t = "array"
    /\ Len(body.props.data.props.translations.items) >= 1
FirstTranslation(body) == body.props.data.props.translations.items[1]

\* C8: after validation the provider's HTTP status is mapped: 429 gives
\* RATE_LIMIT with status 429; 401 or 403 gives AUTH_ERROR with that status;
\* every other non-success status gives API_ERROR with that status; a
\* success status gives a 200 response with the first translation's
\* translatedText and detectedSourceLanguage verbatim.  The HTTP status of
\* every error response equals the status field of its body.
C8_ProviderStatusMapping ==
    /\ (pPc \in {"MAPPED_SUCCESS", "MAPPED_ERROR"} /\ pSettled.k = "response") =>
        LET st == pSettled.status IN
        /\ st = 429 =>
            pResponse.status = 429 /\ pResponse.body.code = "RATE_LIMIT"
        /\ st \in {401, 403} =>
            pResponse.status = st /\ pResponse.body.code = "AUTH_ERROR"
        /\ (~(st >= 200 /\ st <= 299) /\ st \notin {429, 401, 403}) =>
            pResponse.status = st /\ pResponse.body.code = "API_ERROR"
        /\ ((st >= 200 /\ st <= 299) /\ HasFirstTranslation(pSettled.body)) =>
            /\ pPc = "MAPPED_SUCCESS"
            /\ pResponse.status = 200
            /\ pResponse.body.translatedText =
                    Prop(FirstTranslation(pSettled.body), "translatedText")
            /\ pResponse.body.detectedSourceLanguage =
                    Prop(FirstTranslation(pSettled.body), "detectedSourceLanguage")
    /\ (pResponse # NoValue /\ "code" \in DOMAIN pResponse.body) =>
            pResponse.status = pResponse.body.status

\* The provider answered 403 and the caller got AUTH_ERROR with status 403.
C8_Witness ==
    /\ pPc = "MAPPED_ERROR" /\ pSettled.k = "response" /\ pSettled.status = 403
    /\ pResponse.status = 403 /\ pResponse.body.code = "AUTH_ERROR"

\* C9: when an exception is raised while POST handles a request, the
\* response is NETWORK_ERROR with status 503 if and only if the exception
\* is a transport-level failure of the provider call, and API_ERROR with
\* status 500 for every other exception; a structured response is always
\* returned.
C9_ExceptionMapping ==
    pThrown # NoValue =>
        /\ pPc \in ProxyTerminal
        /\ pResponse # NoValue
        /\ DOMAIN pResponse.body = {"code", "message", "status"}
        /\ IF pSettled # NoValue /\ pSettled.k = "failed"
            THEN /\ pResponse.body.code = "NETWORK_ERROR"
                 /\ pResponse.status = 503 /\ pResponse.body.status = 503
            ELSE /\ pResponse.body.code = "API_ERROR"
                 /\ pResponse.status = 500 /\ pResponse.body.status = 500

\* A TypeError that is no transport failure: the provider's success body
\* held no translation, and the caller got API_ERROR with status 500.
C9_Witness ==
    /\ pThrown # NoValue /\ pThrown.class = "TypeError"
    /\ pSettled # NoValue /\ pSettled.k = "response"
    /\ pResponse.body.code = "API_ERROR" /\ pResponse.status = 500

\* Rules 1-5 all pass.
RequestPasses ==
    /\ pBody.t = "json"
    /\ ProxyText.t = "text"
    /\ ~IsBlank(ProxyText.text)
    /\ TextLength(ProxyText.text) <= 5000
    /\ ProxyLanguagesValid
    /\ pApiKey \notin {Undefined, Str("")}

\* C10: per request the Proxy Endpoint follows RECEIVED -> VALIDATING ->
\* {REJECTED | CALLING_PROVIDER} -> {MAPPED_SUCCESS | MAPPED_ERROR}; the
\* provider is called exactly once when rules 1-5 all pass and never when the
\* request is rejected; a response exists exactly in the terminal states,
\* nothing follows a terminal state and the provider is never called twice.
\* (REJECTED is every response made before the provider is called.)
C10_RequestStateMachine ==
    [][/\ <<pPc, pPc'>> \in
            {<<"RECEIVED", "VALIDATING">>, <<"VALIDATING", "REJECTED">>,
             <<"VALIDATING", "CALLING_PROVIDER">>,
             <<"CALLING_PROVIDER", "MAPPED_SUCCESS">>,
             <<"CALLING_PROVIDER", "MAPPED_ERROR">>}
       /\ pPc = "VALIDATING" => (pPc' = "CALLING_PROVIDER" <=> RequestPasses)
       /\ Len(pProviderCalls') =
            IF pPc' \in {"CALLING_PROVIDER", "MAPPED_SUCCESS", "MAPPED_ERROR"}
                THEN 1 ELSE 0
       /\ pPc' \in ProxyTerminal <=> pResponse' # NoValue
      ]_pVars

\* The provider call failed and the request ended after that one call.
C10_Witness ==
    /\ pPc = "MAPPED_ERROR" /\ pSettled.k = "failed"
    /\ Len(pProviderCalls) = 1

\* Two ways the provider call can settle that the claim takes for the same
\* observation: the same non-success HTTP status, or the same class of
\* exception (a transport failure, or an exception reading a success body).
SameProviderObservation(a, b) ==
    \/ a.k = "failed" /\ b.k = "failed"
    \/ /\ a.k = "response" /\ b.k = "response"
       /\ \/ a.status = b.status /\ ~(a.status >= 200 /\ a.status <= 299)
          \/ /\ a.status >= 200 /\ a.status <= 299
             /\ b.status >= 200 /\ b.status <= 299
             /\ ~HasFirstTranslation(a.body) /\ ~HasFirstTranslation(b.body)

\* C11: the Proxy Endpoint's error responses leak nothing provider-internal:
\* the same request, with the same provider HTTP status (non-success) or the
\* same class of exception, gets the same response (code, message, status)
\* whatever the provider's response body, the exception's text and the value
\* of the credential; with the credential absent the response is the fixed
\* generic AUTH_ERROR message.
C11_NoProviderDetailLeaks ==
    /\ pPc \in ProxyTerminal => pResponse = POST(pBody, pApiKey, pSettled)
    /\ (pPc \in {"MAPPED_SUCCESS", "MAPPED_ERROR"}
            /\ (pSettled.k = "response" => ~HasFirstTranslation(pSettled.body)
                    \/ ~(pSettled.status >= 200 /\ pSettled.status <= 299))) =>
        \A key \in ApiKeys \ {Undefined, Str("")}, other \in ProviderOutcomes :
            SameProviderObservation(pSettled, other) =>
                POST(pBody, key, other) = pResponse
    /\ (pPc = "REJECTED" /\ pBody.t = "json" /\ ProxyText.t = "text"
            /\ ~IsBlank(ProxyText.text) /\ TextLength(ProxyText.text) <= 5000
            /\ ProxyLanguagesValid /\ pApiKey \in {Undefined, Str("")}) =>
        pResponse = [status |-> 500,
                     body |-> [code |-> "AUTH_ERROR",
                               message |-> "Translation service configuration error.",
                               status |-> 500]]

\* The provider answered 500 with its own error text, and the caller got
\* the generic message.
C11_Witness ==
    /\ pPc = "MAPPED_ERROR" /\ pSettled.k = "response" /\ pSettled.status = 500
    /\ Prop(pSettled.body, "error") = Str("quota")
    /\ pResponse.body.message = "Translation service is temporarily unavailable."

SavedEntry == hOp.entry
SameFields(a, b) ==
    /\ a.id = b.id
    /\ a.sourceText = b.sourceText
    /\ a.translatedText = b.translatedText
    /\ a.sourceLanguage = b.sourceLanguage
    /\ a.targetLanguage = b.targetLanguage
    /\ a.romanization = b.romanization
    /\ a.timestamp = b.timestamp

\* C12: for every valid entry E and every prior history, saveEntry(E)
\* followed by loadHistory() returns a sequence holding an entry with E's id
\* that equals E on sourceText, translatedText, sourceLanguage,
\* targetLanguage, romanization (absent included) and timestamp; saving an
\* id already stored upserts, so no two entries of the history share an id.
C12_SaveThenLoadRoundTrip ==
    /\ (hOp.op = "saveEntry" /\ hLoaded.valid) =>
        \E i \in DOMAIN hLoaded.entries : SameFields(hLoaded.entries[i], SavedEntry)
    /\ hLoaded.valid =>
        \A i, j \in DOMAIN hLoaded.entries :
            i # j => hLoaded.entries[i].id # hLoaded.entries[j].id

\* An entry without romanization was saved over a different entry of the
\* same id, and the history was loaded.
C12_Witness ==
    /\ hOp.op = "saveEntry" /\ hLoaded.valid
    /\ SavedEntry.romanization = Undefined
    /\ SavedEntry.sourceLanguage # SavedEntry.targetLanguage
    /\ \E i \in DOMAIN hBefore :
        hBefore[i].id = SavedEntry.id /\ hBefore[i] # SavedEntry

C14_ClearThenLoad ==
    /\ (hOp.op = "clearAll" /\ hLoaded.valid) => hLoaded.entries = <<>>
    /\ hOp.op = "clearAll" =>
        /\ loadHistory(hStore) = <<>>
        /\ clearAll(hStore) = hStore
    /\ (hLoaded.valid /\ (~hStore.present \/ hStore.items = <<>>)) =>
        hLoaded.entries = <<>>

\* A history of two entries was cleared and then loaded.
C14_Witness ==
    /\ hOp.op = "clearAll" /\ hLoaded.valid
    /\ Len(hBefore) >= 2
    /\ hLoaded.entries = <<>>

\* C15: getOppositeLanguage is total on {en, ja}, maps en to ja and ja to
\* en: its value is in {en, ja}, differs from its argument, and applying it
\* twice gives the argument back.
C15_OppositeLanguage ==
    /\ lTarget \in {"en", "ja"}
    /\ lTarget # lSource
    /\ lSource = "en" => lTarget = "ja"
    /\ lSource = "ja" => lTarget = "en"
    /\ getOppositeLanguage(lTarget) = lSource
    /\ \A language \in {"en", "ja"} :
        /\ getOppositeLanguage(language) \in {"en", "ja"}
        /\ getOppositeLanguage(language) # language
        /\ getOppositeLanguage(getOppositeLanguage(language)) = language

\* Japanese was selected as the source and English became the target.
C15_Witness == lSource = "ja" /\ lTarget = "en"

\* The answer of the Proxy Endpoint's validation to the Gateway's text, with
\* valid languages and a credential.
ProxyAnswerToGatewayText ==
    Validate(Json([text |-> Txt(gText), sourceLanguage |-> Str("en"),
                   targetLanguage |-> Str("ja")]), Str("secret-key"))

\* C16: the Proxy Endpoint's text validation mirrors the Gateway's local
\* checks: every text translate rejects locally while online is rejected by
\* the Proxy Endpoint with the same code, status and message, and every
\* text the Gateway accepts passes the Proxy Endpoint's text checks.
C16_ProxyMirrorsGateway ==
    (gPc \in {"fetching", "done"} /\ gOnline) =>
        IF GatewayFailedLocally
            THEN /\ ProxyAnswerToGatewayText # NoValue
                 /\ ProxyAnswerToGatewayText.body.code = GatewayError.code.s
                 /\ ProxyAnswerToGatewayText.status = GatewayError.status
                 /\ ProxyAnswerToGatewayText.body.message = GatewayError.message.s
            ELSE ProxyAnswerToGatewayText = NoValue

====
